---- MODULE Spec2Model ----
(***************************************************************************)
(* AnchorKit: the storage layer of the attestation registry               *)
(* (src/src/storage.rs, types.rs, events.rs, errors.rs) and the operation *)
(* layer that drives it (initialize / add / remove / record).             *)
(*                                                                         *)
(* The host environment (Env) is a record:                                 *)
(*   instance     instance storage: storage key -> value                   *)
(*   instance_ttl ledger up to which the instance storage lives            *)
(*   persistent   persistent storage: storage key ->                       *)
(*                [val |-> value, live_until |-> ledger]                   *)
(*   ledger       the current ledger (sequence number and close time)      *)
(***************************************************************************)
EXTENDS Integers, Sequences, FiniteSets, TLC

(* ---------------- bounds of the model ---------------- *)
(* MaxLedger: how far the ledger advances.  The other inputs are drawn    *)
(* from these sets.                                                       *)
MaxLedger == 2

Addresses == {"A", "B"}
Targets == {"B"}
Subjects == {"C"}
Hashes == {"h1", "h2"}
Signatures == {"s1"}
Timestamps == 0..(MaxLedger + 1)

(* ---------------- errors.rs ---------------- *)
AlreadyInitialized == 100
NotInitialized == 101
UnauthorizedAttestor == 102
AttestorAlreadyRegistered == 103
AttestorNotRegistered == 104
ReplayAttack == 105
InvalidTimestamp == 106
AttestationNotFound == 107
InvalidPublicKey == 108

(* Result<T, Error> and Option<T> *)
Ok(v) == [ok |-> TRUE, val |-> v]
Err(e) == [ok |-> FALSE, err |-> e]
Some(v) == [ok |-> TRUE, val |-> v]
None == [ok |-> FALSE]
Failed(r, e) == (~r.ok) /\ r.err = e

(* ---------------- types.rs ---------------- *)
Attestation(id, issuer, subject, timestamp, payload_hash, signature) ==
    [id |-> id, issuer |-> issuer, subject |-> subject, timestamp |-> timestamp,
     payload_hash |-> payload_hash, signature |-> signature]

(* ---------------- storage.rs: StorageKey ---------------- *)
StorageKey_Admin == [tag |-> "Admin"]
StorageKey_Attestor(addr) == [tag |-> "Attestor", addr |-> addr]
StorageKey_Counter == [tag |-> "Counter"]
StorageKey_Attestation(id) == [tag |-> "Attestation", id |-> id]
StorageKey_UsedHash(hash) == [tag |-> "UsedHash", hash |-> hash]

(* a to_storage_key that leaves the address out of an attestor's key *)
to_storage_key_shared_attestor(k) ==
    CASE k.tag = "Admin" -> <<"ADMIN">>
      [] k.tag = "Attestor" -> <<"ATTESTOR">>
      [] k.tag = "Counter" -> <<"COUNTER">>
      [] k.tag = "Attestation" -> <<"ATTEST", k.id>>
      [] k.tag = "UsedHash" -> <<"USED", k.hash>>

(* a to_storage_key that leaves the identifier out of an attestation's key *)
to_storage_key_attestation_prefix(k) ==
    CASE k.tag = "Admin" -> <<"ADMIN">>
      [] k.tag = "Attestor" -> <<"ATTESTOR", k.addr>>
      [] k.tag = "Counter" -> <<"COUNTER">>
      [] k.tag = "Attestation" -> <<"ATTEST">>
      [] k.tag = "UsedHash" -> <<"USED", k.hash>>

to_storage_key(k) ==
    CASE k.tag = "Admin" -> <<"ADMIN">>
      [] k.tag = "Attestor" -> <<"ATTESTOR", k.addr>>
      [] k.tag = "Counter" -> <<"COUNTER">>
      [] k.tag = "Attestation" -> <<"ATTEST", k.id>>
      [] k.tag = "UsedHash" -> <<"USED", k.hash>>

(* ---------------- the host's storage interface ---------------- *)
DAY_IN_LEDGERS == 17280
INSTANCE_LIFETIME == DAY_IN_LEDGERS * 30
(* a PERSISTENT_LIFETIME of the instance class's 30 days *)
PERSISTENT_LIFETIME_30_days == DAY_IN_LEDGERS * 30

PERSISTENT_LIFETIME == DAY_IN_LEDGERS * 90

MapPut(m, k, v) == [x \in (DOMAIN m) \cup {k} |-> IF x = k THEN v ELSE m[x]]

(* env.storage().instance().has / get / set / extend_ttl *)
instance_has(env, key) == key \in DOMAIN env.instance
instance_get(env, key) ==
    IF key \in DOMAIN env.instance THEN Some(env.instance[key]) ELSE None
instance_set(env, key, val) ==
    [env EXCEPT !.instance = MapPut(env.instance, key, val)]
instance_extend_ttl(env, threshold, extend_to) ==
    IF env.instance_ttl - env.ledger < threshold
    THEN [env EXCEPT !.instance_ttl = env.ledger + extend_to]
    ELSE env

(* env.storage().persistent().get / set / extend_ttl: a new entry starts   *)
(* with the shortest life the host can give it, an existing one keeps its *)
(* live_until on set.                                                      *)
persistent_get(env, key) ==
    IF key \in DOMAIN env.persistent THEN Some(env.persistent[key].val) ELSE None
persistent_set(env, key, val) ==
    [env EXCEPT !.persistent = MapPut(env.persistent, key,
        [val |-> val,
         live_until |-> IF key \in DOMAIN env.persistent
                        THEN env.persistent[key].live_until
                        ELSE env.ledger])]
persistent_extend_ttl(env, key, threshold, extend_to) ==
    IF key \in DOMAIN env.persistent
       /\ env.persistent[key].live_until - env.ledger < threshold
    THEN [env EXCEPT !.persistent[key].live_until = env.ledger + extend_to]
    ELSE env

(* Option::unwrap_or and Option::ok_or *)
unwrap_or(r, default) == IF r.ok THEN r.val ELSE default
ok_or(r, e) == IF r.ok THEN Ok(r.val) ELSE Err(e)

(* ---------------- storage.rs: Storage ---------------- *)
(* a has_admin that looks for the counter's key *)
has_admin_counter_key(env) == instance_has(env, to_storage_key(StorageKey_Counter))

has_admin(env) == instance_has(env, to_storage_key(StorageKey_Admin))

set_admin(env, admin) ==
    instance_extend_ttl(
        instance_set(env, to_storage_key(StorageKey_Admin), admin),
        INSTANCE_LIFETIME, INSTANCE_LIFETIME)

(* a get_admin that reports the other lifecycle error *)
get_admin_already_initialized(env) ==
    ok_or(instance_get(env, to_storage_key(StorageKey_Admin)), AlreadyInitialized)

get_admin(env) ==
    ok_or(instance_get(env, to_storage_key(StorageKey_Admin)), NotInitialized)

(* a set_attestor that stores true whatever is_registered is *)
set_attestor_always_true(env, attestor, is_registered) ==
    LET key == to_storage_key(StorageKey_Attestor(attestor))
    IN  persistent_extend_ttl(persistent_set(env, key, TRUE),
                              key, PERSISTENT_LIFETIME, PERSISTENT_LIFETIME)

set_attestor(env, attestor, is_registered) ==
    LET key == to_storage_key(StorageKey_Attestor(attestor))
    IN  persistent_extend_ttl(persistent_set(env, key, is_registered),
                              key, PERSISTENT_LIFETIME, PERSISTENT_LIFETIME)

(* an is_attestor whose default is true *)
is_attestor_default_true(env, attestor) ==
    unwrap_or(persistent_get(env, to_storage_key(StorageKey_Attestor(attestor))), TRUE)

is_attestor(env, attestor) ==
    unwrap_or(persistent_get(env, to_storage_key(StorageKey_Attestor(attestor))), FALSE)

(* a get_and_increment_counter that returns the value it has just written *)
get_and_increment_counter_returns_new(env) ==
    LET key == to_storage_key(StorageKey_Counter)
        counter == unwrap_or(instance_get(env, key), 0)
    IN  [env |-> instance_extend_ttl(instance_set(env, key, counter + 1),
                                     INSTANCE_LIFETIME, INSTANCE_LIFETIME),
         ret |-> counter + 1]

(* a get_and_increment_counter that writes the counter back unchanged *)
get_and_increment_counter_no_advance(env) ==
    LET key == to_storage_key(StorageKey_Counter)
        counter == unwrap_or(instance_get(env, key), 0)
    IN  [env |-> instance_extend_ttl(instance_set(env, key, counter),
                                     INSTANCE_LIFETIME, INSTANCE_LIFETIME),
         ret |-> counter]

(* get_and_increment_counter: the environment after the call and the      *)
(* value returned                                                          *)
counter_value(env) ==
    unwrap_or(instance_get(env, to_storage_key(StorageKey_Counter)), 0)

get_and_increment_counter(env) ==
    LET key == to_storage_key(StorageKey_Counter)
        counter == counter_value(env)
    IN  [env |-> instance_extend_ttl(instance_set(env, key, counter + 1),
                                     INSTANCE_LIFETIME, INSTANCE_LIFETIME),
         ret |-> counter]

(* ---- get_and_increment_counter at the full width of u64 ---- *)
(* The Counter above stays a few units from 0, where `counter + 1` is the *)
(* integers' addition.  Here a u64 is written as four 16-bit limbs, the   *)
(* most significant first, so that the top of the range can be stored.    *)
U16 == 65536
u64(n) == <<0, 0, 0, n>>
U64_MAX == <<U16 - 1, U16 - 1, U16 - 1, U16 - 1>>
u64_overflows_add_one(v) == v = U64_MAX
u64_wrapping_add_one(v) ==
    IF v[4] < U16 - 1 THEN <<v[1], v[2], v[3], v[4] + 1>>
    ELSE IF v[3] < U16 - 1 THEN <<v[1], v[2], v[3] + 1, 0>>
    ELSE IF v[2] < U16 - 1 THEN <<v[1], v[2] + 1, 0, 0>>
    ELSE IF v[1] < U16 - 1 THEN <<v[1] + 1, 0, 0, 0>>
    ELSE <<0, 0, 0, 0>>

(* `counter + 1` on a u64 panics when it overflows in a build with        *)
(* overflow checks and wraps around in a build without them; a panic ends *)
(* the function before it writes.                                         *)
get_and_increment_counter_u64(env, overflow_checks) ==
    LET key == to_storage_key(StorageKey_Counter)
        counter == unwrap_or(instance_get(env, key), u64(0))
    IN  IF overflow_checks /\ u64_overflows_add_one(counter)
        THEN [env |-> env, ret |-> counter, panicked |-> TRUE]
        ELSE [env |-> instance_extend_ttl(
                          instance_set(env, key, u64_wrapping_add_one(counter)),
                          INSTANCE_LIFETIME, INSTANCE_LIFETIME),
              ret |-> counter, panicked |-> FALSE]

(* a set_attestation that files the record under the record's own id *)
set_attestation_by_record_id(env, id, attestation) ==
    LET key == to_storage_key(StorageKey_Attestation(attestation.id))
    IN  persistent_extend_ttl(persistent_set(env, key, attestation),
                              key, PERSISTENT_LIFETIME, PERSISTENT_LIFETIME)

set_attestation(env, id, attestation) ==
    LET key == to_storage_key(StorageKey_Attestation(id))
    IN  persistent_extend_ttl(persistent_set(env, key, attestation),
                              key, PERSISTENT_LIFETIME, PERSISTENT_LIFETIME)

(* a get_attestation that reports get_admin's error *)
get_attestation_not_initialized(env, id) ==
    ok_or(persistent_get(env, to_storage_key(StorageKey_Attestation(id))),
          NotInitialized)

get_attestation(env, id) ==
    ok_or(persistent_get(env, to_storage_key(StorageKey_Attestation(id))),
          AttestationNotFound)

(* a mark_hash_used that stores false *)
mark_hash_used_false(env, hash) ==
    LET key == to_storage_key(StorageKey_UsedHash(hash))
    IN  persistent_extend_ttl(persistent_set(env, key, FALSE),
                              key, PERSISTENT_LIFETIME, PERSISTENT_LIFETIME)

mark_hash_used(env, hash) ==
    LET key == to_storage_key(StorageKey_UsedHash(hash))
    IN  persistent_extend_ttl(persistent_set(env, key, TRUE),
                              key, PERSISTENT_LIFETIME, PERSISTENT_LIFETIME)

(* an is_hash_used that reads the attestor key of the hash *)
is_hash_used_attestor_key(env, hash) ==
    unwrap_or(persistent_get(env, to_storage_key(StorageKey_Attestor(hash))), FALSE)

is_hash_used(env, hash) ==
    unwrap_or(persistent_get(env, to_storage_key(StorageKey_UsedHash(hash))), FALSE)

(* ---------------- events.rs ---------------- *)
AttestorAdded_publish(attestor) ==
    [topics |-> <<"attestor", "added">>, data |-> [attestor |-> attestor]]

AttestorRemoved_publish(attestor) ==
    [topics |-> <<"attestor", "removed">>, data |-> [attestor |-> attestor]]

(* an AttestationRecorded that reports the subject as the issuer *)
AttestationRecorded_publish_swapped(id, issuer, subject, timestamp, payload_hash) ==
    [topics |-> <<"attest", "recorded">>,
     data |-> [id |-> id, issuer |-> subject, subject |-> issuer,
               timestamp |-> timestamp, payload_hash |-> payload_hash]]

AttestationRecorded_publish(id, issuer, subject, timestamp, payload_hash) ==
    [topics |-> <<"attest", "recorded">>,
     data |-> [id |-> id, issuer |-> issuer, subject |-> subject,
               timestamp |-> timestamp, payload_hash |-> payload_hash]]

(* ---------------- the host's ledger ---------------- *)
ledger_timestamp(env) == env.ledger

(* ---------------- operation layer ---------------- *)
(* Each call is a function of the environment it starts in: the           *)
(* environment it leaves, its result, the events it publishes and the     *)
(* identifiers it drew from the allocator and the hashes it marked used.  *)
(* A failing call leaves the environment it found.                        *)
Abort(env, e) ==
    [env |-> env, result |-> Err(e), events |-> <<>>, ids |-> <<>>, hashes |-> {}]
Commit(env, v, evs, ids, hashes) ==
    [env |-> env, result |-> Ok(v), events |-> evs, ids |-> ids, hashes |-> hashes]

initialize_call(env, admin) ==
    IF has_admin(env)
    THEN Abort(env, AlreadyInitialized)
    ELSE Commit(set_admin(env, admin), "unit", <<>>, <<>>, {})

add_call(env, caller, target) ==
    LET admin == get_admin(env)
    IN  IF ~admin.ok THEN Abort(env, admin.err)
        ELSE IF caller # admin.val THEN Abort(env, UnauthorizedAttestor)
        ELSE IF is_attestor(env, target) THEN Abort(env, AttestorAlreadyRegistered)
        ELSE Commit(set_attestor(env, target, TRUE), "unit",
                    <<AttestorAdded_publish(target)>>, <<>>, {})

remove_call(env, caller, target) ==
    LET admin == get_admin(env)
    IN  IF ~admin.ok THEN Abort(env, admin.err)
        ELSE IF caller # admin.val THEN Abort(env, UnauthorizedAttestor)
        ELSE IF ~is_attestor(env, target) THEN Abort(env, AttestorNotRegistered)
        ELSE Commit(set_attestor(env, target, FALSE), "unit",
                    <<AttestorRemoved_publish(target)>>, <<>>, {})

(* a record that rejects a timestamp equal to the host time *)
record_call_strictly_past(env, caller, issuer, subject, timestamp, payload_hash, signature) ==
    LET admin == get_admin(env)
    IN  IF ~admin.ok THEN Abort(env, admin.err)
        ELSE IF ~is_attestor(env, caller) THEN Abort(env, UnauthorizedAttestor)
        ELSE IF timestamp = 0 \/ timestamp >= ledger_timestamp(env)
             THEN Abort(env, InvalidTimestamp)
        ELSE IF is_hash_used(env, payload_hash) THEN Abort(env, ReplayAttack)
        ELSE LET alloc == get_and_increment_counter(env)
                 id == alloc.ret
                 attestation == Attestation(id, issuer, subject, timestamp,
                                            payload_hash, signature)
                 env2 == set_attestation(alloc.env, id, attestation)
                 env3 == mark_hash_used(env2, payload_hash)
             IN  Commit(env3, id,
                        <<AttestationRecorded_publish(id, issuer, subject,
                                                      timestamp, payload_hash)>>,
                        <<id>>, {payload_hash})

record_call(env, caller, issuer, subject, timestamp, payload_hash, signature) ==
    LET admin == get_admin(env)
    IN  IF ~admin.ok THEN Abort(env, admin.err)
        ELSE IF ~is_attestor(env, caller) THEN Abort(env, UnauthorizedAttestor)
        ELSE IF timestamp = 0 \/ timestamp > ledger_timestamp(env)
             THEN Abort(env, InvalidTimestamp)
        ELSE IF is_hash_used(env, payload_hash) THEN Abort(env, ReplayAttack)
        ELSE LET alloc == get_and_increment_counter(env)
                 id == alloc.ret
                 attestation == Attestation(id, issuer, subject, timestamp,
                                            payload_hash, signature)
                 env2 == set_attestation(alloc.env, id, attestation)
                 env3 == mark_hash_used(env2, payload_hash)
             IN  Commit(env3, id,
                        <<AttestationRecorded_publish(id, issuer, subject,
                                                      timestamp, payload_hash)>>,
                        <<id>>, {payload_hash})

(* ---------------- the host's call boundary ---------------- *)
(* A call that ends in failure is discarded whole: the next call sees the *)
(* environment the failed call started in.                                *)
HostError == 0
AbortPoints == {"set_attestation", "mark_hash_used", "publish"}

(* a host that keeps the writes a failed call had made *)
host_end_call_keep_writes(before, working, result) == working

host_end_call(before, working, result) == IF result.ok THEN working ELSE before

(* record, failing in the host after get_and_increment_counter has run:   *)
(* `at` names the step that fails, `working` is what the call had written *)
(* by then.                                                               *)
record_abort_call(env, caller, issuer, subject, timestamp, payload_hash, signature, at) ==
    LET alloc == get_and_increment_counter(env)
        id == alloc.ret
        attestation == Attestation(id, issuer, subject, timestamp,
                                   payload_hash, signature)
        env2 == set_attestation(alloc.env, id, attestation)
        env3 == mark_hash_used(env2, payload_hash)
        working == CASE at = "set_attestation" -> alloc.env
                     [] at = "mark_hash_used" -> env2
                     [] at = "publish" -> env3
        result == Err(HostError)
    IN  [env |-> host_end_call(env, working, result), working |-> working,
         result |-> result, events |-> <<>>, ids |-> <<>>, hashes |-> {}]

(* ---------------- state ---------------- *)
(* env     the host environment of the contract instance                  *)
(* events  the events published by the latest call                        *)
(* last    the latest call: its name, its caller, its result              *)
(* issued  history: the identifiers get_and_increment_counter returned    *)
(* marked  history: the hashes mark_hash_used ran on                      *)
VARIABLES env, events, last, issued, marked

vars == <<env, events, last, issued, marked>>

Init ==
    /\ env = [instance |-> <<>>, instance_ttl |-> 0, persistent |-> <<>>, ledger |-> 0]
    /\ events = <<>>
    /\ last = [op |-> "none"]
    /\ issued = <<>>
    /\ marked = {}

initialize(admin) ==
    LET out == initialize_call(env, admin)
    IN  /\ env' = out.env
        /\ events' = out.events
        /\ issued' = issued \o out.ids
        /\ marked' = marked \cup out.hashes
        /\ last' = [op |-> "initialize", caller |-> admin, result |-> out.result]

add(caller, target) ==
    LET out == add_call(env, caller, target)
    IN  /\ env' = out.env
        /\ events' = out.events
        /\ issued' = issued \o out.ids
        /\ marked' = marked \cup out.hashes
        /\ last' = [op |-> "add", caller |-> caller, target |-> target,
                    result |-> out.result]

remove(caller, target) ==
    LET out == remove_call(env, caller, target)
    IN  /\ env' = out.env
        /\ events' = out.events
        /\ issued' = issued \o out.ids
        /\ marked' = marked \cup out.hashes
        /\ last' = [op |-> "remove", caller |-> caller, target |-> target,
                    result |-> out.result]

record(caller, issuer, subject, timestamp, payload_hash, signature) ==
    LET out == record_call(env, caller, issuer, subject, timestamp, payload_hash,
                           signature)
    IN  /\ env' = out.env
        /\ events' = out.events
        /\ issued' = issued \o out.ids
        /\ marked' = marked \cup out.hashes
        /\ last' = [op |-> "record", caller |-> caller, result |-> out.result]

(* a record call that passed every check and then fails in the host *)
record_abort(caller, issuer, subject, timestamp, payload_hash, signature, at) ==
    LET out == record_abort_call(env, caller, issuer, subject, timestamp,
                                 payload_hash, signature, at)
    IN  /\ record_call(env, caller, issuer, subject, timestamp, payload_hash,
                       signature).result.ok
        /\ env' = out.env
        /\ events' = out.events
        /\ issued' = issued \o out.ids
        /\ marked' = marked \cup out.hashes
        /\ last' = [op |-> "record_abort", caller |-> caller, result |-> out.result]

(* the host closes a ledger: sequence number and close time advance, and  *)
(* what has outlived its horizon is reclaimed from the live state         *)
host_close_ledger(e) ==
    LET now == e.ledger + 1
        kept == {k \in DOMAIN e.persistent : e.persistent[k].live_until >= now}
    IN [instance |-> IF e.instance_ttl >= now THEN e.instance ELSE <<>>,
        instance_ttl |-> e.instance_ttl,
        persistent |-> IF kept = DOMAIN e.persistent THEN e.persistent
                       ELSE [k \in kept |-> e.persistent[k]],
        ledger |-> now]

AdvanceLedger ==
    /\ env.ledger < MaxLedger
    /\ env' = host_close_ledger(env)
    /\ events' = <<>>
    /\ last' = [op |-> "advance"]
    /\ UNCHANGED <<issued, marked>>

Next ==
    \/ \E admin \in Addresses : initialize(admin)
    \/ \E caller \in Addresses, target \in Targets : add(caller, target)
    \/ \E caller \in Addresses, target \in Targets : remove(caller, target)
    \/ \E caller \in Addresses, issuer \in Addresses, subject \in Subjects,
          timestamp \in Timestamps, payload_hash \in Hashes, signature \in Signatures :
          record(caller, issuer, subject, timestamp, payload_hash, signature)
    \/ \E caller \in Addresses, issuer \in Addresses, subject \in Subjects,
          timestamp \in Timestamps, payload_hash \in Hashes, signature \in Signatures,
          at \in AbortPoints :
          record_abort(caller, issuer, subject, timestamp, payload_hash, signature, at)
    \/ AdvanceLedger

Spec == Init /\ [][Next]_vars

(* ---------------- the allocator on its own ---------------- *)
(* get_and_increment_counter applied to Counters near 0, across a carry   *)
(* and at the top of u64.  An instance whose Counter is stored has issued *)
(* 0, 1, ... up to the Counter; of these `issued` keeps the first.        *)
MaxAllocations == 3
CounterStarts ==
    {u64(U16 - 1),
     <<U16 - 1, U16 - 1, U16 - 1, U16 - 3>>,
     <<U16 - 1, U16 - 1, U16 - 1, U16 - 2>>,
     U64_MAX}

CounterInit ==
    /\ \/ /\ env = [instance |-> <<>>, instance_ttl |-> 0,
                     persistent |-> <<>>, ledger |-> 0]
          /\ issued = <<>>
       \/ \E c \in CounterStarts :
             /\ env = [instance |-> MapPut(<<>>, <<"COUNTER">>, c),
                       instance_ttl |-> INSTANCE_LIFETIME,
                       persistent |-> <<>>, ledger |-> 0]
             /\ issued = <<u64(0)>>
    /\ events = <<>>
    /\ last = [op |-> "none"]
    /\ marked = {}

allocate ==
    /\ Len(issued) <= MaxAllocations
    /\ \E overflow_checks \in BOOLEAN :
          LET r == get_and_increment_counter_u64(env, overflow_checks)
              result == IF r.panicked THEN Err(HostError) ELSE Ok(r.ret)
          IN  /\ env' = host_end_call(env, r.env, result)
              /\ issued' = IF r.panicked THEN issued ELSE Append(issued, r.ret)
              /\ last' = [op |-> "allocate", result |-> result]
    /\ UNCHANGED <<events, marked>>

CounterNext ==
    \/ allocate
    \/ AdvanceLedger

CounterSpec == CounterInit /\ [][CounterNext]_vars

(* ======================= properties ======================= *)
(* what is stored, read from the environment itself *)
AdminStored(e) == <<"ADMIN">> \in DOMAIN e.instance
StoredAdmin(e) == e.instance[<<"ADMIN">>]
FlagWritten(e, a) == <<"ATTESTOR", a>> \in DOMAIN e.persistent
FlagTrue(e, a) == FlagWritten(e, a) /\ e.persistent[<<"ATTESTOR", a>>].val = TRUE
AttestationWritten(e, id) == <<"ATTEST", id>> \in DOMAIN e.persistent
StoredCounter(e) ==
    IF <<"COUNTER">> \in DOMAIN e.instance THEN e.instance[<<"COUNTER">>] ELSE 0
Ids == 0..(Cardinality(Hashes) + 1)
SameCounterAndStore(e1, e2) ==
    /\ (<<"COUNTER">> \in DOMAIN e1.instance) = (<<"COUNTER">> \in DOMAIN e2.instance)
    /\ StoredCounter(e1) = StoredCounter(e2)
    /\ \A id \in Ids :
          /\ AttestationWritten(e1, id) = AttestationWritten(e2, id)
          /\ AttestationWritten(e1, id) =>
                e1.persistent[<<"ATTEST", id>>] = e2.persistent[<<"ATTEST", id>>]
ValidTimestamp(e, t) == t # 0 /\ t <= ledger_timestamp(e)

C2_IdentifiersStrictlyIncrease ==
    \A i \in 1..Len(issued), j \in 1..Len(issued) : i < j => issued[i] < issued[j]

(* two identifiers were issued in different ledgers, with other calls    *)
(* in between                                                            *)
C2_Witness ==
    /\ Len(issued) >= 2
    /\ AttestationWritten(env, 0) /\ AttestationWritten(env, 1)
    /\ env.persistent[<<"ATTEST", 0>>].live_until
         < env.persistent[<<"ATTEST", 1>>].live_until

C4_OnlyAdminChangesFlags ==
    [][ /\ \A a \in Addresses :
             (is_attestor(env', a) # is_attestor(env, a)) =>
                 /\ last'.op \in {"add", "remove"}
                 /\ last'.result.ok
                 /\ last'.target = a
                 /\ get_admin(env).ok
                 /\ last'.caller = get_admin(env).val
        /\ (/\ last'.op \in {"add", "remove"}
            /\ get_admin(env).ok
            /\ last'.caller # get_admin(env).val) =>
                 /\ Failed(last'.result, UnauthorizedAttestor)
                 /\ env' = env
      ]_vars

(* a caller other than the Admin has just tried to remove a registered   *)
(* attestor, which is still registered                                   *)
C4_Witness ==
    /\ last.op = "remove"
    /\ Failed(last.result, UnauthorizedAttestor)
    /\ AdminStored(env) /\ last.caller # StoredAdmin(env)
    /\ FlagTrue(env, last.target)

(* C5: in an initialized instance a record call by a caller whose flag   *)
(* is not true (never written, or written false) fails with              *)
(* UnauthorizedAttestor and changes nothing; a record call that          *)
(* succeeded was made by a caller whose flag is true.                    *)
C5_RecordNeedsAttestor ==
    /\ \A caller \in Addresses, issuer \in Addresses, subject \in Subjects,
          timestamp \in Timestamps, payload_hash \in Hashes, signature \in Signatures :
          (AdminStored(env) /\ ~FlagTrue(env, caller)) =>
              LET out == record_call(env, caller, issuer, subject, timestamp,
                                     payload_hash, signature)
              IN  Failed(out.result, UnauthorizedAttestor) /\ out.env = env
    /\ (last.op = "record" /\ last.result.ok) => FlagTrue(env, last.caller)

(* a removed attestor has just been refused *)
C5_Witness ==
    /\ last.op = "record"
    /\ Failed(last.result, UnauthorizedAttestor)
    /\ FlagWritten(env, last.caller) /\ ~FlagTrue(env, last.caller)

(* C6: once an Admin is stored it stays stored and unchanged, and every  *)
(* initialize call fails with AlreadyInitialized.                        *)
C6_InitializeOnce ==
    [][ AdminStored(env) =>
          /\ AdminStored(env')
          /\ StoredAdmin(env') = StoredAdmin(env)
          /\ get_admin(env') = Ok(StoredAdmin(env))
          /\ (last'.op = "initialize" => Failed(last'.result, AlreadyInitialized))
      ]_vars

(* a second initialize, with another identity, has just failed *)
C6_Witness ==
    /\ last.op = "initialize"
    /\ Failed(last.result, AlreadyInitialized)
    /\ AdminStored(env) /\ last.caller # StoredAdmin(env)

(* C7: while no Admin is stored nothing else is stored, and add, remove  *)
(* and record fail with NotInitialized and write nothing.                *)
C7_NothingBeforeInitialize ==
    (~AdminStored(env)) =>
        /\ DOMAIN env.instance = {}
        /\ DOMAIN env.persistent = {}
        /\ issued = <<>> /\ marked = {}
        /\ \A caller \in Addresses, target \in Addresses :
              LET a == add_call(env, caller, target)
                  r == remove_call(env, caller, target)
              IN  /\ Failed(a.result, NotInitialized) /\ a.env = env
                  /\ Failed(r.result, NotInitialized) /\ r.env = env
        /\ \A caller \in Addresses, issuer \in Addresses, subject \in Subjects,
              timestamp \in Timestamps, payload_hash \in Hashes,
              signature \in Signatures :
              LET out == record_call(env, caller, issuer, subject, timestamp,
                                     payload_hash, signature)
              IN  Failed(out.result, NotInitialized) /\ out.env = env

(* a record call has just failed on an uninitialized instance *)
C7_Witness ==
    /\ ~AdminStored(env)
    /\ last.op = "record"
    /\ Failed(last.result, NotInitialized)

(* C8: is_attestor is false for an identity whose flag was never         *)
(* written, true right after a successful add of it and false right      *)
(* after a successful remove of it.                                      *)
C8_IsAttestorFollowsAddRemove ==
    /\ \A a \in Addresses : (~FlagWritten(env, a)) => ~is_attestor(env, a)
    /\ (last.op = "add" /\ last.result.ok) => is_attestor(env, last.target)
    /\ (last.op = "remove" /\ last.result.ok) => ~is_attestor(env, last.target)

(* an attestor has just been removed, and another identity was never     *)
(* written                                                               *)
C8_Witness ==
    /\ last.op = "remove" /\ last.result.ok
    /\ \E a \in Addresses : ~FlagWritten(env, a)

(* C9: get_attestation fails with AttestationNotFound at an id nothing   *)
(* was stored at, returns the stored record at an id something was       *)
(* stored at, and returns r, equal in all six fields, right after        *)
(* set_attestation(id, r).                                               *)
SampleAttestations ==
    {Attestation(0, "A", "C", 1, "h1", "s1"), Attestation(1, "B", "A", 2, "h2", "s2")}
SameFields(a, b) ==
    /\ a.id = b.id /\ a.issuer = b.issuer /\ a.subject = b.subject
    /\ a.timestamp = b.timestamp /\ a.payload_hash = b.payload_hash
    /\ a.signature = b.signature
C9_GetAttestationRoundTrip ==
    /\ \A id \in Ids :
          IF AttestationWritten(env, id)
          THEN get_attestation(env, id) = Ok(env.persistent[<<"ATTEST", id>>].val)
          ELSE Failed(get_attestation(env, id), AttestationNotFound)
    /\ \A id \in Ids, r \in SampleAttestations :
          LET got == get_attestation(set_attestation(env, id, r), id)
          IN  got.ok /\ SameFields(got.val, r)

(* one attestation is stored, at id 0, and none at id 1 *)
C9_Witness ==
    /\ last.op = "record" /\ last.result.ok
    /\ get_attestation(env, 0).ok
    /\ Failed(get_attestation(env, 1), AttestationNotFound)

(* C10: a record call with timestamp 0 or a timestamp later than the     *)
(* host time fails and changes nothing, with InvalidTimestamp when the   *)
(* instance is initialized and the caller a registered attestor; with a  *)
(* non-zero timestamp equal to the host time (and an unused hash) such   *)
(* a call succeeds.                                                      *)
C10_TimestampChecked ==
    \A caller \in Addresses, issuer \in Addresses, subject \in Subjects,
       timestamp \in Timestamps, payload_hash \in Hashes, signature \in Signatures :
       LET out == record_call(env, caller, issuer, subject, timestamp, payload_hash,
                              signature)
           authorized == AdminStored(env) /\ FlagTrue(env, caller)
       IN  /\ (timestamp = 0 \/ timestamp > env.ledger) =>
                 /\ ~out.result.ok
                 /\ out.env = env
                 /\ authorized => Failed(out.result, InvalidTimestamp)
           /\ (/\ timestamp # 0 /\ timestamp = env.ledger
               /\ authorized
               /\ ~(<<"USED", payload_hash>> \in DOMAIN env.persistent)) =>
                 out.result.ok

(* a record call has just failed with InvalidTimestamp, in a ledger in   *)
(* which an attestation with timestamp equal to the host time is stored  *)
C10_Witness ==
    /\ last.op = "record"
    /\ Failed(last.result, InvalidTimestamp)
    /\ \E id \in Ids :
          /\ AttestationWritten(env, id)
          /\ env.persistent[<<"ATTEST", id>>].val.timestamp = env.ledger
          /\ env.persistent[<<"ATTEST", id>>].live_until = env.ledger + PERSISTENT_LIFETIME

(* C11: a record call that fails after get_and_increment_counter has run  *)
(* (at set_attestation, at mark_hash_used or at the notification) had     *)
(* written to the Counter, and the environment the next call sees is the  *)
(* one the failed call started in.                                        *)
UsedHashes(e) == {h \in Hashes : <<"USED", h>> \in DOMAIN e.persistent}
HorizonAfterWrite(e) ==
    /\ \A a \in Addresses : set_admin(e, a).instance_ttl = e.ledger + 518400
    /\ get_and_increment_counter(e).env.instance_ttl = e.ledger + 518400
    /\ \A a \in Addresses, b \in BOOLEAN :
          set_attestor(e, a, b).persistent[<<"ATTESTOR", a>>].live_until
              = e.ledger + 1555200
    /\ \A id \in Ids, r \in SampleAttestations :
          set_attestation(e, id, r).persistent[<<"ATTEST", id>>].live_until
              = e.ledger + 1555200
    /\ \A h \in Hashes :
          mark_hash_used(e, h).persistent[<<"USED", h>>].live_until
              = e.ledger + 1555200
C12_WritesRefreshHorizon ==
    [][ /\ HorizonAfterWrite(env')
        /\ DOMAIN env.instance \subseteq DOMAIN env'.instance
        /\ DOMAIN env.persistent \subseteq DOMAIN env'.persistent
        /\ IF env'.instance # env.instance
           THEN env'.instance_ttl = env'.ledger + 518400
           ELSE env'.instance_ttl = env.instance_ttl
        /\ \A k \in DOMAIN env'.persistent :
              IF k \in DOMAIN env.persistent
                 /\ env'.persistent[k].val = env.persistent[k].val
              THEN env'.persistent[k].live_until = env.persistent[k].live_until
              ELSE env'.persistent[k].live_until = env'.ledger + 1555200
      ]_vars

(* an attestor's flag has just been rewritten in a later ledger than the  *)
(* instance storage was last written in                                   *)
C12_Witness ==
    /\ last.op = "remove" /\ last.result.ok
    /\ env.ledger > 0
    /\ env.persistent[<<"ATTESTOR", last.target>>].live_until = env.ledger + 1555200
    /\ env.instance_ttl < env.ledger + 518400

(* C13: storage keys never alias.  Distinct logical keys have distinct    *)
(* storage keys, and a write through one logical key changes what is read *)
(* through that key only: every read through another variant, or through *)
(* the same variant with another parameter, returns what it did before.   *)
LogicalKeys ==
    {StorageKey_Admin, StorageKey_Counter}
    \cup {StorageKey_Attestor(a) : a \in Addresses}
    \cup {StorageKey_Attestation(i) : i \in Ids}
    \cup {StorageKey_UsedHash(h) : h \in Hashes}
Reads(e) ==
    [has_admin |-> has_admin(e),
     admin |-> get_admin(e),
     counter |-> counter_value(e),
     attestor |-> [a \in Addresses |-> is_attestor(e, a)],
     attestation |-> [i \in Ids |-> get_attestation(e, i)],
     used |-> [h \in Hashes |-> is_hash_used(e, h)]]
C13_KeysNeverAlias ==
    /\ \A k1 \in LogicalKeys, k2 \in LogicalKeys :
          k1 # k2 => to_storage_key(k1) # to_storage_key(k2)
    /\ \A a \in Addresses :
          Reads(set_admin(env, a))
              = [Reads(env) EXCEPT !.has_admin = TRUE, !.admin = Ok(a)]
    /\ Reads(get_and_increment_counter(env).env)
          = [Reads(env) EXCEPT !.counter = @ + 1]
    /\ \A a \in Addresses, b \in BOOLEAN :
          /\ Reads(set_attestor(env, a, b)) = [Reads(env) EXCEPT !.attestor[a] = b]
          /\ set_attestor(env, a, b).instance = env.instance
          /\ \A k \in DOMAIN env.persistent :
                k # <<"ATTESTOR", a>> =>
                    set_attestor(env, a, b).persistent[k] = env.persistent[k]
    /\ \A i \in Ids, r \in SampleAttestations :
          Reads(set_attestation(env, i, r))
              = [Reads(env) EXCEPT !.attestation[i] = Ok(r)]
    /\ \A h \in Hashes :
          Reads(mark_hash_used(env, h)) = [Reads(env) EXCEPT !.used[h] = TRUE]

(* all five kinds of key are stored, several of two of them, and a record *)
(* call has just written three of them                                    *)
C13_Witness ==
    /\ last.op = "record" /\ last.result.ok
    /\ AdminStored(env) /\ StoredCounter(env) = 2
    /\ \E a \in Addresses : FlagWritten(env, a)
    /\ \A i \in 0..1 : AttestationWritten(env, i)
    /\ UsedHashes(env) = Hashes

(* C14: notifications follow successful mutations only.  A call that     *)
(* fails publishes nothing; a successful record publishes exactly one    *)
(* "attestation recorded" event whose id, issuer, subject, timestamp and *)
(* payload_hash are those of the attestation the call stored; a          *)
(* successful add or remove publishes exactly one "attestor added" or    *)
(* "attestor removed" event that carries the target.                     *)
RecordedEventMatches(evs, e, id) ==
    /\ Len(evs) = 1
    /\ evs[1].topics = <<"attest", "recorded">>
    /\ AttestationWritten(e, id)
    /\ LET a == e.persistent[<<"ATTEST", id>>].val
           d == evs[1].data
       IN  /\ d.id = a.id /\ d.issuer = a.issuer /\ d.subject = a.subject
           /\ d.timestamp = a.timestamp /\ d.payload_hash = a.payload_hash
AttestorEventMatches(evs, kind, target) ==
    evs = <<[topics |-> <<"attestor", kind>>, data |-> [attestor |-> target]]>>
C14_EventsFollowSuccess ==
    /\ (last.op \in {"initialize", "add", "remove", "record", "record_abort"}
            /\ ~last.result.ok) => events = <<>>
    /\ (last.op = "record" /\ last.result.ok) =>
            RecordedEventMatches(events, env, last.result.val)
    /\ (last.op = "add" /\ last.result.ok) =>
            AttestorEventMatches(events, "added", last.target)
    /\ (last.op = "remove" /\ last.result.ok) =>
            AttestorEventMatches(events, "removed", last.target)
    /\ \A caller \in Addresses, target \in Addresses :
          LET a == add_call(env, caller, target)
              r == remove_call(env, caller, target)
          IN  /\ IF a.result.ok
                 THEN AttestorEventMatches(a.events, "added", target)
                 ELSE a.events = <<>>
              /\ IF r.result.ok
                 THEN AttestorEventMatches(r.events, "removed", target)
                 ELSE r.events = <<>>
    /\ \A caller \in Addresses, issuer \in Addresses, subject \in Subjects,
          timestamp \in Timestamps, payload_hash \in Hashes, signature \in Signatures :
          LET out == record_call(env, caller, issuer, subject, timestamp,
                                 payload_hash, signature)
          IN  IF out.result.ok
              THEN /\ RecordedEventMatches(out.events, out.env, out.result.val)
                   /\ out.events[1].data.issuer = issuer
                   /\ out.events[1].data.subject = subject
                   /\ out.events[1].data.timestamp = timestamp
                   /\ out.events[1].data.payload_hash = payload_hash
              ELSE out.events = <<>>

(* a second attestation has just been recorded and announced *)
C14_Witness ==
    /\ last.op = "record" /\ last.result.ok /\ last.result.val = 1
    /\ Len(events) = 1 /\ events[1].data.id = 1
    /\ events[1].data.issuer # last.caller

(* C15: get_and_increment_counter returns the Counter stored before the   *)
(* call, 0 if none was ever written, and leaves the stored Counter one    *)
(* greater than what it returned; the k-th call of an instance, counted   *)
(* from 0, returns k, so that the identifiers issued have no gaps.        *)
C15_CounterReturnsThenAdvances ==
    /\ LET r == get_and_increment_counter(env)
       IN  /\ r.ret = StoredCounter(env)
           /\ <<"COUNTER">> \in DOMAIN r.env.instance
           /\ r.env.instance[<<"COUNTER">>] = r.ret + 1
           /\ get_and_increment_counter(r.env).ret = r.ret + 1
    /\ (<<"COUNTER">> \notin DOMAIN env.instance) =>
            get_and_increment_counter(env).ret = 0
    /\ \A k \in 1..Len(issued) : issued[k] = k - 1
    /\ StoredCounter(env) = Len(issued)

(* the call counted 1 has returned, after calls that failed and left the  *)
(* Counter alone                                                          *)
C15_Witness ==
    /\ Len(issued) = 2 /\ issued[2] = 1
    /\ last.op = "record" /\ last.result.ok /\ last.result.val = 1
    /\ env.instance[<<"COUNTER">>] = 2

(* C16: attestations are immutable.  Once an attestation is stored at     *)
(* identifier i, every step (initialize, add, remove, record, an aborted  *)
(* record, a ledger close) leaves get_attestation(i) returning that same  *)
(* record; set_attestation itself would overwrite it, but record only     *)
(* calls it with an identifier at which nothing is stored.                *)
C16_AttestationsImmutable ==
    [][ /\ \A i \in Ids :
              AttestationWritten(env, i) =>
                  /\ AttestationWritten(env', i)
                  /\ env'.persistent[<<"ATTEST", i>>].val = env.persistent[<<"ATTEST", i>>].val
                  /\ get_attestation(env', i) = get_attestation(env, i)
        /\ \A i \in Ids, r \in SampleAttestations :
              get_attestation(set_attestation(env, i, r), i) = Ok(r)
        /\ \A caller \in Addresses, issuer \in Addresses, subject \in Subjects,
              timestamp \in Timestamps, payload_hash \in Hashes, signature \in Signatures :
              LET out == record_call(env, caller, issuer, subject, timestamp,
                                     payload_hash, signature)
              IN  out.result.ok => ~AttestationWritten(env, out.result.val)
      ]_vars

(* with an attestation stored, a second one was recorded and the attestor *)
(* then removed                                                           *)
C16_Witness ==
    /\ AttestationWritten(env, 0) /\ AttestationWritten(env, 1)
    /\ last.op = "remove" /\ last.result.ok

(* C17: with calls admitted one at a time, is_hash_used followed by       *)
(* mark_hash_used never lets two record calls succeed for one payload     *)
(* hash: at most one stored attestation carries a given payload_hash, and *)
(* the payload_hash of every stored attestation is marked used.           *)
C17_OneAttestationPerHash ==
    /\ \A i \in Ids, j \in Ids :
          (i # j /\ AttestationWritten(env, i) /\ AttestationWritten(env, j)) =>
              env.persistent[<<"ATTEST", i>>].val.payload_hash
                  # env.persistent[<<"ATTEST", j>>].val.payload_hash
    /\ \A i \in Ids :
          AttestationWritten(env, i) =>
              LET h == env.persistent[<<"ATTEST", i>>].val.payload_hash
              IN  /\ <<"USED", h>> \in DOMAIN env.persistent
                  /\ env.persistent[<<"USED", h>>].val = TRUE
                  /\ is_hash_used(env, h)

(* two attestations are stored and a third record call, for a hash one of *)
(* them carries, has just been refused                                    *)
C17_Witness ==
    /\ AttestationWritten(env, 0) /\ AttestationWritten(env, 1)
    /\ last.op = "record" /\ Failed(last.result, ReplayAttack)

(* C18: with the Admin as caller, add of an identity whose flag is true   *)
(* fails with AttestorAlreadyRegistered, and remove of an identity whose  *)
(* flag is not true (never written, or written false by a remove) fails   *)
(* with AttestorNotRegistered; both leave the flag, and everything else,  *)
(* as it was.  After a successful remove, an add by the Admin succeeds    *)
(* and is_attestor is true again.                                         *)
C18_AddRemoveErrors ==
    /\ AdminStored(env) =>
          \A x \in Addresses :
              LET a == add_call(env, StoredAdmin(env), x)
                  r == remove_call(env, StoredAdmin(env), x)
              IN  IF FlagTrue(env, x)
                  THEN /\ Failed(a.result, AttestorAlreadyRegistered)
                       /\ a.env = env
                       /\ r.result.ok
                       /\ FlagWritten(r.env, x) /\ ~FlagTrue(r.env, x)
                       /\ LET again == add_call(r.env, StoredAdmin(env), x)
                          IN  /\ again.result.ok
                              /\ is_attestor(again.env, x)
                              /\ FlagTrue(again.env, x)
                  ELSE /\ Failed(r.result, AttestorNotRegistered)
                       /\ r.env = env
                       /\ a.result.ok
                       /\ FlagTrue(a.env, x)
    /\ (last.op = "add" /\ Failed(last.result, AttestorAlreadyRegistered)) =>
            FlagTrue(env, last.target)
    /\ (last.op = "remove" /\ Failed(last.result, AttestorNotRegistered)) =>
            ~FlagTrue(env, last.target)
    /\ (last.op = "add" /\ last.result.ok) => is_attestor(env, last.target)

(* an identity was added again by the Admin after its removal: it had    *)
(* been an attestor, since an attestation is stored, and the add that has *)
(* just succeeded found its flag not true                                 *)
C18_Witness ==
    /\ last.op = "add" /\ last.result.ok
    /\ FlagTrue(env, last.target)
    /\ env.persistent[<<"ATTESTOR", last.target>>].live_until > 1555200
    /\ \E i \in Ids : AttestationWritten(env, i)

(* C20: the Attestation Store and the Counter agree.  An attestation is   *)
(* stored at identifier i exactly when i is less than the stored Counter, *)
(* and the record stored at i has i as its id, the value the allocator    *)
(* issued when it was created.                                            *)
C20_StoreAgreesWithCounter ==
    /\ \A i \in Ids :
          /\ AttestationWritten(env, i) <=> i < StoredCounter(env)
          /\ AttestationWritten(env, i) =>
                /\ env.persistent[<<"ATTEST", i>>].val.id = i
                /\ i \in {issued[k] : k \in 1..Len(issued)}
    /\ \A k \in DOMAIN env.persistent : k[1] = "ATTEST" => k[2] \in Ids
    /\ StoredCounter(env) \in Ids

(* two attestations are stored, the Counter is 2, and the ledger has      *)
(* closed since                                                           *)
C20_Witness ==
    /\ StoredCounter(env) = 2
    /\ AttestationWritten(env, 0) /\ AttestationWritten(env, 1)
    /\ ~AttestationWritten(env, 2)
    /\ last.op = "advance"

(* C19, as stated: get_and_increment_counter has no error condition.  It  *)
(* succeeds whatever u64 the stored Counter is, 2^64 - 1 included, and    *)
(* returns a value it has not returned before.                            *)
C19_AllocateAlwaysSucceeds ==
    last.op = "allocate" =>
        /\ last.result.ok
        /\ \A k \in 1..(Len(issued) - 1) : issued[k] # last.result.val

====
